---------------------------- MODULE Spec2Model ----------------------------
(***************************************************************************)
(* Verification model of the donut example programs:                       *)
(*                                                                         *)
(*   threaded_rendering  ThreadedRendering::Render / RenderCubeFace        *)
(*   headless            main (command-line handling)                      *)
(*   work_graphs         WorkGraphs::Animate / Render / Populate* passes   *)
(*   work_graphs         scene.cpp: mesh generators and PopulateWorld      *)
(*   rt_particles        RayTracedParticles::Animate                       *)
(*   variable_shading    VariableRateShading::BackBufferResizing / Render  *)
(*   rt_bindless         BindlessRayTracing::BuildTLAS / Render            *)
(*                                                                         *)
(* Each example is a program of its own, so each has its own variables,    *)
(* initial state and next-state relation; the variables of the other       *)
(* programs stay at their initial values.                                  *)
(***************************************************************************)
EXTENDS Integers, Sequences, FiniteSets, TLC

VARIABLES
    \* ---- threaded_rendering ----
    m_UseThreads,        \* bool m_UseThreads
    pc,                  \* position of the main thread inside Render
    face,                \* the loop variable `face` of Render's two loops
    taskFlow,            \* tf::Taskflow taskFlow: captured face of each task
    taskState,           \* executor: state of each submitted task
    m_FaceCommandLists,  \* the six per-face command lists
    m_CommandList,       \* the blit command list
    submitted            \* what executeCommandLists was handed, last call

varsThreaded == <<m_UseThreads, pc, face, taskFlow, taskState,
                  m_FaceCommandLists, m_CommandList, submitted>>

VARIABLES
    \* ---- headless ----
    argv,                \* argv[1 .. argc-1], each argument a sequence of characters
    i,                   \* the loop variable `i` of main
    hpc,                 \* position of main: "loop", "test", "exit"
    adapterIndex,        \* deviceParams.adapterIndex
    optionsSeen,         \* the indices i at which the loop body examined argv[i]
    deviceRequest,       \* the CreateHeadlessDevice call, once made
    testRan,             \* whether RunTest was called
    exitCode,            \* the value main returned
    output               \* what main printed or logged

varsHeadless == <<argv, i, hpc, adapterIndex, optionsSeen, deviceRequest,
                  testRan, exitCode, output>>

VARIABLES
    \* ---- work_graphs ----
    phase,                         \* position of the message loop within a frame
    fbSize,                        \* size of the back buffer handed to Render
    m_RenderTargets,               \* size of the render targets, or NullTargets
    m_CurrentTechnique,            \* Techniques m_CurrentTechnique
    m_InitWorkGraphBackingMemory,  \* bool
    m_ForceResetAnimation,         \* bool
    m_TimeInSeconds,               \* float, here in whole ticks
    m_TimeDiffThisFrame,           \* float, here in whole ticks
    m_UI,                          \* UIData
    m_NextTimerToUse,              \* int
    loads,                         \* how many times LoadWorkGraphPipelines ran
    m_WorkGraphBroadcastingSO,     \* the work graph state object (its identity)
    m_WorkGraphBackingMemory,      \* the backing memory buffer (its identity)
    backingMemory,                 \* per buffer created: what the GPU has done to it
    timerPending,                  \* timer slots recorded and not yet complete
    timerReady,                    \* timer slots for which pollTimerQuery is true
    frame                          \* what the last Render recorded into m_CommandList

varsWorkGraphs == <<phase, fbSize, m_RenderTargets, m_CurrentTechnique,
                    m_InitWorkGraphBackingMemory, m_ForceResetAnimation,
                    m_TimeInSeconds, m_TimeDiffThisFrame, m_UI, m_NextTimerToUse,
                    loads, m_WorkGraphBroadcastingSO, m_WorkGraphBackingMemory,
                    backingMemory, timerPending, timerReady, frame>>

VARIABLES
    \* ---- work_graphs: the animation pass's dispatch sizes on their own ----
    elementCount,        \* m_Scene.GetWorldObjects().size() or GetLights().size()
    animationDispatch    \* the (dispatchX, dispatchY) handed to dispatch

varsDispatch == <<elementCount, animationDispatch>>

VARIABLES
    \* ---- rt_particles ----
    sceneLoaded,         \* ApplicationBase::IsSceneLoaded()
    enableAnimations,    \* m_ui->enableAnimations
    m_Particles,         \* std::vector<ParticleEntity>: active and age of each
    m_WallclockTime,     \* float, here in ticks
    m_LastEmitTime,      \* float, here in ticks
    animateCalls,        \* how many times Animate has been called
    lastAnimate          \* what the last Animate call found and did

varsParticles == <<sceneLoaded, enableAnimations, m_Particles, m_WallclockTime,
                   m_LastEmitTime, animateCalls, lastAnimate>>

VARIABLES
    \* ---- variable_shading ----
    vrsFramebuffer,        \* size of the framebuffer the next Render is handed
    m_Camera,              \* app::FirstPersonCamera m_Camera (its position)
    vrsRenderTargets,      \* std::unique_ptr<RenderTargets> m_RenderTargets
    m_ForwardPass,         \* std::unique_ptr<render::ForwardShadingPass>
    m_shadingRateSurface,  \* nvrhi::TextureHandle
    m_temporalPass,        \* std::unique_ptr<render::TemporalAntiAliasingPass>
    m_Pipeline,            \* nvrhi::ComputePipelineHandle
    m_View,                \* engine::PlanarView m_View
    m_ViewPrevious,        \* engine::PlanarView m_ViewPrevious
    m_PreviousViewsValid,  \* bool
    resizes,               \* how many times BackBufferResizing was called
    vrsFrame               \* what the last Render recorded

varsShading == <<vrsFramebuffer, m_Camera, vrsRenderTargets, m_ForwardPass,
                 m_shadingRateSurface, m_temporalPass, m_Pipeline, m_View,
                 m_ViewPrevious, m_PreviousViewsValid, resizes, vrsFrame>>

VARIABLES
    \* ---- work_graphs scene generator: GeneratePlane / GenerateBox / GenerateSphere ----
    meshType,            \* which mesh of meshSet is being generated
    gpc,                 \* position inside the generator
    sideIndex,           \* which of the four GenerateSide calls of GenerateBox
    meshY,               \* uint16_t y of the current loop
    meshX,               \* uint16_t x of the current loop
    meshI,               \* uint16_t i of the cap loops of GenerateSphere
    baseVtx,             \* const uint16_t baseVtx
    capVtx,              \* const uint16_t capVtx
    positionCount,       \* outMesh.positions.size()
    indexCount,          \* outMesh.indices.size()
    pushed,              \* the indices the last step pushed, as stored
    wrapped,             \* whether a conversion to uint16_t has changed a value
    assertsHeld          \* whether every assert evaluated so far held

varsMeshes == <<meshType, gpc, sideIndex, meshY, meshX, meshI, baseVtx, capVtx,
                positionCount, indexCount, pushed, wrapped, assertsHeld>>

VARIABLES
    \* ---- work_graphs scene generator: Scene::PopulateWorld ----
    wpc,                 \* position inside PopulateWorld
    m_materials,         \* std::vector<Material>: the materialType of each
    materialLoop,        \* which of the seven material loops is running
    materialI,           \* uint32_t i of that loop
    worldFloor,          \* uint32_t floor
    roomX,               \* int roomX
    roomZ,               \* int roomZ
    m_worldObjects,      \* std::vector<Instance>: the (mesh, material, animation) pushed
    worldObjectCount,    \* m_worldObjects.size()
    lastObject           \* the Instance pushed last

varsWorld == <<wpc, m_materials, materialLoop, materialI, worldFloor, roomX,
               roomZ, m_worldObjects, worldObjectCount, lastObject>>

VARIABLES
    \* ---- rt_bindless ----
    frameIndex,            \* GetFrameIndex()
    lastUpdateFrameIndex,  \* GetLastUpdateFrameIndex() of each skinned instance
    tlasCommands,          \* what the last Render call recorded through BuildTLAS
    tlasFrame              \* the frame index and the instances updated in that call

varsBindless == <<frameIndex, lastUpdateFrameIndex, tlasCommands, tlasFrame>>

vars == <<varsThreaded, varsHeadless, varsWorkGraphs, varsDispatch,
         varsParticles, varsShading, varsMeshes, varsWorld,
         varsBindless>>

-----------------------------------------------------------------------------
(***************************************************************************)
(* threaded_rendering                                                      *)
(***************************************************************************)

\* std::array<nvrhi::CommandListHandle, 6>, and the bound of the face loops.
NumFaces == 6

Faces == 0 .. (NumFaces - 1)

\* The main thread is recorder 0, task t of the task flow is recorder t.
MainThread == 0

\* A command list: whether it is open for recording, and per Render call how
\* many times it was opened and by which recorders.
FreshList == [open |-> FALSE, opens |-> 0, by |-> {}]

\* commandList->open() in RenderCubeFace(face), executed by recorder `who`.
CubeFaceOpen(lists, f, who) ==
    [lists EXCEPT ![f] = [open  |-> TRUE,
                          opens |-> @.opens + 1,
                          by    |-> @.by \cup {who}]]

\* commandList->close() at the end of RenderCubeFace(face).
CubeFaceClose(lists, f) ==
    [lists EXCEPT ![f].open = FALSE]

\* RenderCubeFace(face) run to completion by one recorder.
RenderCubeFace(lists, f, who) ==
    CubeFaceClose(CubeFaceOpen(lists, f, who), f)

\* A loop bound that stops one face short.
FaceLoopStopsShort(f) == f < NumFaces - 1

\* for (int face = 0; face < 6; face++)
FaceLoopContinues(f) == f < NumFaces

\* A step of the threaded_rendering program leaves the other programs alone.
ThreadedOnly ==
    UNCHANGED <<varsHeadless, varsWorkGraphs, varsDispatch, varsParticles,
                varsShading, varsMeshes, varsWorld, varsBindless>>

NoSubmission ==
    [valid |-> FALSE, useThreads |-> FALSE,
     faces |-> [f \in Faces |-> FreshList], running |-> {},
     mainOpen |-> FALSE]

ThreadedStart ==
    /\ m_UseThreads = TRUE
    /\ pc = "idle"
    /\ face = 0
    /\ taskFlow = <<>>
    /\ taskState = <<>>
    /\ m_FaceCommandLists = [f \in Faces |-> FreshList]
    /\ m_CommandList = [open |-> FALSE, blits |-> 0]
    /\ submitted = NoSubmission

\* KeyboardUpdate with GLFW_KEY_SPACE pressed; delivered by the message loop
\* between frames, on the thread that also calls Render.
KeyboardUpdate ==
    /\ pc = "idle"
    /\ m_UseThreads' = ~m_UseThreads
    /\ UNCHANGED <<pc, face, taskFlow, taskState, m_FaceCommandLists,
                   m_CommandList, submitted>>
    /\ ThreadedOnly

\* Render entry: a new local taskFlow; branch on m_UseThreads.
RenderBegin ==
    /\ pc = "idle"
    /\ taskFlow' = <<>>
    /\ taskState' = <<>>
    /\ face' = 0
    /\ m_FaceCommandLists' =
           [f \in Faces |-> [m_FaceCommandLists[f] EXCEPT !.opens = 0, !.by = {}]]
    /\ m_CommandList' = [m_CommandList EXCEPT !.blits = 0]
    /\ submitted' = NoSubmission
    /\ pc' = IF m_UseThreads THEN "emplace" ELSE "serial"
    /\ UNCHANGED m_UseThreads
    /\ ThreadedOnly

\* taskFlow.emplace([this, face]() { RenderCubeFace(face); });
EmplaceTask ==
    /\ pc = "emplace"
    /\ FaceLoopContinues(face)
    /\ taskFlow' = Append(taskFlow, face)
    /\ face' = face + 1
    /\ UNCHANGED <<m_UseThreads, pc, taskState, m_FaceCommandLists,
                   m_CommandList, submitted>>
    /\ ThreadedOnly

\* m_Executor->run(taskFlow): the tasks become runnable; run returns at once.
ExecutorRun ==
    /\ pc = "emplace"
    /\ ~FaceLoopContinues(face)
    /\ taskState' = [t \in 1 .. Len(taskFlow) |-> "queued"]
    /\ pc' = "blit"
    /\ UNCHANGED <<m_UseThreads, face, taskFlow, m_FaceCommandLists,
                   m_CommandList, submitted>>
    /\ ThreadedOnly

\* A worker picks a task up and runs RenderCubeFace up to and including open().
TaskBegin(t) ==
    /\ t \in DOMAIN taskState
    /\ taskState[t] = "queued"
    /\ taskFlow[t] \in Faces
    /\ taskState' = [taskState EXCEPT ![t] = "recording"]
    /\ m_FaceCommandLists' = CubeFaceOpen(m_FaceCommandLists, taskFlow[t], t)
    /\ UNCHANGED <<m_UseThreads, pc, face, taskFlow, m_CommandList, submitted>>
    /\ ThreadedOnly

\* The worker records the face and closes the list; the task completes.
TaskEnd(t) ==
    /\ t \in DOMAIN taskState
    /\ taskState[t] = "recording"
    /\ taskState' = [taskState EXCEPT ![t] = "done"]
    /\ m_FaceCommandLists' = CubeFaceClose(m_FaceCommandLists, taskFlow[t])
    /\ UNCHANGED <<m_UseThreads, pc, face, taskFlow, m_CommandList, submitted>>
    /\ ThreadedOnly

\* else-branch: RenderCubeFace(face) on the main thread, one face per step.
SerialRenderCubeFace ==
    /\ pc = "serial"
    /\ FaceLoopContinues(face)
    /\ m_FaceCommandLists' = RenderCubeFace(m_FaceCommandLists, face, MainThread)
    /\ face' = face + 1
    /\ UNCHANGED <<m_UseThreads, pc, taskFlow, taskState, m_CommandList, submitted>>
    /\ ThreadedOnly

SerialLoopExit ==
    /\ pc = "serial"
    /\ ~FaceLoopContinues(face)
    /\ pc' = "blit"
    /\ UNCHANGED <<m_UseThreads, face, taskFlow, taskState, m_FaceCommandLists,
                   m_CommandList, submitted>>
    /\ ThreadedOnly

\* m_CommandList->open(); six BlitTexture calls; m_CommandList->close().
RecordBlits ==
    /\ pc = "blit"
    /\ m_CommandList' = [open |-> FALSE, blits |-> NumFaces]
    /\ pc' = "wait"
    /\ UNCHANGED <<m_UseThreads, face, taskFlow, taskState, m_FaceCommandLists,
                   submitted>>
    /\ ThreadedOnly

\* A wait that returns at once.
WaitReturnsAtOnce == TRUE

\* m_Executor->wait_for_all() returns when every submitted task has completed.
AllTasksComplete == \A t \in DOMAIN taskState : taskState[t] = "done"

\* if (m_UseThreads) m_Executor->wait_for_all();
WaitForAll ==
    /\ pc = "wait"
    /\ m_UseThreads => AllTasksComplete
    /\ pc' = "execute"
    /\ UNCHANGED <<m_UseThreads, face, taskFlow, taskState, m_FaceCommandLists,
                   m_CommandList, submitted>>
    /\ ThreadedOnly

\* GetDevice()->executeCommandLists(commandLists, 7)
ExecuteCommandLists ==
    /\ pc = "execute"
    /\ submitted' =
           [valid      |-> TRUE,
            useThreads |-> m_UseThreads,
            faces      |-> m_FaceCommandLists,
            running    |-> {t \in DOMAIN taskState : taskState[t] # "done"},
            mainOpen   |-> m_CommandList.open]
    /\ pc' = "idle"
    /\ UNCHANGED <<m_UseThreads, face, taskFlow, taskState, m_FaceCommandLists,
                   m_CommandList>>
    /\ ThreadedOnly

-----------------------------------------------------------------------------
(***************************************************************************)
(* headless: main's handling of the command line                           *)
(***************************************************************************)

\* The arguments the model draws command lines from, as character sequences.
ArgHelp         == <<"-", "-", "h", "e", "l", "p">>
ArgListAdapters == <<"-", "-", "l", "i", "s", "t", "-", "a", "d", "a", "p", "t", "e", "r", "s">>
ArgAdapter      == <<"-", "-", "a", "d", "a", "p", "t", "e", "r">>
ArgVk           == <<"-", "v", "k">>

Arguments ==
    {ArgHelp, ArgListAdapters, ArgAdapter, ArgVk,
     <<"0">>, <<"1">>, <<"1", "2">>, <<"-", "1">>, <<"2", "x">>}

\* The longest command line drawn (arguments after argv[0]).
MaxArgs == 4

CommandLines == UNION {[1 .. n -> Arguments] : n \in 0 .. MaxArgs}

\* int argc: argv[0] is the program name, argv[1 .. argc-1] the arguments.
argc == Len(argv) + 1

\* argv[k]; argv[argc] is the terminating null pointer, an empty string here.
ArgAt(args, k) == IF k \in DOMAIN args THEN args[k] ELSE <<>>

\* strcmp(a, b) == 0
StrEq(a, b) == a = b

IsDigit(c) == c \in {"0", "1", "2", "3", "4", "5", "6", "7", "8", "9"}

DigitValue(c) ==
    CASE c = "0" -> 0 [] c = "1" -> 1 [] c = "2" -> 2 [] c = "3" -> 3
      [] c = "4" -> 4 [] c = "5" -> 5 [] c = "6" -> 6 [] c = "7" -> 7
      [] c = "8" -> 8 [] c = "9" -> 9

RECURSIVE DigitsValue(_, _, _)
\* The value of the run of decimal digits of s that starts at position k.
DigitsValue(s, k, acc) ==
    IF k > Len(s) \/ ~IsDigit(s[k])
    THEN acc
    ELSE DigitsValue(s, k + 1, acc * 10 + DigitValue(s[k]))

RECURSIVE SkipSpace(_, _)
SkipSpace(s, k) ==
    IF k <= Len(s) /\ s[k] = " " THEN SkipSpace(s, k + 1) ELSE k

\* atoi: leading white space, an optional sign, then decimal digits; 0 when
\* no digits follow.
Atoi(s) ==
    LET k == SkipSpace(s, 1) IN
    IF k > Len(s) THEN 0
    ELSE IF s[k] = "-" THEN 0 - DigitsValue(s, k + 1, 0)
    ELSE IF s[k] = "+" THEN DigitsValue(s, k + 1, 0)
    ELSE DigitsValue(s, k, 0)

\* The parameter read one argument too early.
AdapterParameterOffByOne(args, k) == ArgAt(args, k)

\* argv[i + 1], the parameter of the option at argv[i]
AdapterParameter(args, k) == ArgAt(args, k + 1)

\* A check that never reports the parameter missing.
ParameterNeverMissing(n, k) == FALSE

\* if (i + 1 >= argc)
MissingParameter(n, k) == k + 1 >= n

\* app::DeviceCreationParameters deviceParams: adapterIndex as constructed.
DefaultAdapterIndex == -1

NoDeviceRequest == [made |-> FALSE, adapterIndex |-> DefaultAdapterIndex, ok |-> FALSE]

\* A step of the headless program leaves the other programs alone.
HeadlessOnly ==
    UNCHANGED <<varsThreaded, varsWorkGraphs, varsDispatch, varsParticles,
                varsShading, varsMeshes, varsWorld, varsBindless>>

HeadlessStart ==
    /\ argv \in CommandLines
    /\ i = 1
    /\ hpc = "loop"
    /\ adapterIndex = DefaultAdapterIndex
    /\ optionsSeen = {}
    /\ deviceRequest = NoDeviceRequest
    /\ testRan = FALSE
    /\ exitCode = 0
    /\ output = {}

\* The headless program when another program is the one being run.
HeadlessParked ==
    /\ argv = <<>>
    /\ i = 1
    /\ hpc = "exit"
    /\ adapterIndex = DefaultAdapterIndex
    /\ optionsSeen = {}
    /\ deviceRequest = NoDeviceRequest
    /\ testRan = FALSE
    /\ exitCode = 0
    /\ output = {}

\* return <code>; from main
Return(code) ==
    /\ exitCode' = code
    /\ hpc' = "exit"

\* if (strcmp(argv[i], "--help") == 0) { printf(usage); return 0; }
HelpOption ==
    /\ hpc = "loop"
    /\ i < argc
    /\ StrEq(argv[i], ArgHelp)
    /\ optionsSeen' = optionsSeen \cup {i}
    /\ output' = output \cup {"usage"}
    /\ Return(0)
    /\ UNCHANGED <<argv, i, adapterIndex, deviceRequest, testRan>>
    /\ HeadlessOnly

\* if (strcmp(argv[i], "--list-adapters") == 0) { ... return ...; }
\* CreateInstance and EnumerateAdapters succeed or fail as the system decides.
ListAdaptersOption(instanceOk, enumerateOk) ==
    /\ hpc = "loop"
    /\ i < argc
    /\ ~StrEq(argv[i], ArgHelp)
    /\ StrEq(argv[i], ArgListAdapters)
    /\ optionsSeen' = optionsSeen \cup {i}
    /\ IF ~instanceOk
       THEN /\ output' = output \cup {"error: cannot initialize subsystem"}
            /\ Return(1)
       ELSE IF ~enumerateOk
       THEN /\ output' = output \cup {"error: cannot enumerate adapters"}
            /\ Return(1)
       ELSE /\ output' = output \cup {"adapter list"}
            /\ Return(0)
    /\ UNCHANGED <<argv, i, adapterIndex, deviceRequest, testRan>>
    /\ HeadlessOnly

\* else if (strcmp(argv[i], "--adapter") == 0) { ... }, then the loop's ++i.
AdapterOption ==
    /\ hpc = "loop"
    /\ i < argc
    /\ ~StrEq(argv[i], ArgHelp)
    /\ ~StrEq(argv[i], ArgListAdapters)
    /\ StrEq(argv[i], ArgAdapter)
    /\ optionsSeen' = optionsSeen \cup {i}
    /\ IF MissingParameter(argc, i)
       THEN /\ output' = output \cup {"error: --device requires a parameter"}
            /\ Return(1)
            /\ UNCHANGED <<i, adapterIndex>>
       ELSE /\ adapterIndex' = Atoi(AdapterParameter(argv, i))
            /\ i' = i + 2
            /\ UNCHANGED <<output, exitCode, hpc>>
    /\ UNCHANGED <<argv, deviceRequest, testRan>>
    /\ HeadlessOnly

\* Any other argument: no branch is taken, the loop's ++i.
OtherArgument ==
    /\ hpc = "loop"
    /\ i < argc
    /\ ~StrEq(argv[i], ArgHelp)
    /\ ~StrEq(argv[i], ArgListAdapters)
    /\ ~StrEq(argv[i], ArgAdapter)
    /\ optionsSeen' = optionsSeen \cup {i}
    /\ i' = i + 1
    /\ UNCHANGED <<argv, hpc, adapterIndex, deviceRequest, testRan, exitCode, output>>
    /\ HeadlessOnly

\* After the loop: if (!deviceManager->CreateHeadlessDevice(deviceParams)) ...
CreateHeadlessDevice(ok) ==
    /\ hpc = "loop"
    /\ ~(i < argc)
    /\ deviceRequest' = [made |-> TRUE, adapterIndex |-> adapterIndex, ok |-> ok]
    /\ IF ~ok
       THEN /\ output' = output \cup {"error: cannot initialize device"}
            /\ Return(1)
       ELSE /\ output' = output \cup {"using api"}
            /\ hpc' = "test"
            /\ UNCHANGED exitCode
    /\ UNCHANGED <<argv, i, adapterIndex, optionsSeen, testRan>>
    /\ HeadlessOnly

\* if (!RunTest(device)) return 1; deviceManager->Shutdown(); return 0;
RunTest(passed) ==
    /\ hpc = "test"
    /\ testRan' = TRUE
    /\ output' = output \cup {IF passed THEN "test passed" ELSE "test failed"}
    /\ Return(IF passed THEN 0 ELSE 1)
    /\ UNCHANGED <<argv, i, adapterIndex, optionsSeen, deviceRequest>>
    /\ HeadlessOnly

-----------------------------------------------------------------------------
(***************************************************************************)
(* work_graphs: WorkGraphs::Animate, Render and the passes Render records. *)
(*                                                                         *)
(* The device manager's message loop drives the two render passes main     *)
(* registers, the example and then the UI, once per frame: a resize of the *)
(* window (BackBufferResizing), Animate, Render, and the UI's buildUI.     *)
(* Shader and pipeline creation is taken to succeed.                       *)
(***************************************************************************)

\* enum class Techniques
TechWorkGraph == 0
TechDispatch  == 1

Techniques == {TechWorkGraph, TechDispatch}

\* static const uint32_t QueuedFramesCount = 10;
QueuedFramesCount == 10

TimerSlots == 0 .. (QueuedFramesCount - 1)

\* m_RenderTargets == nullptr
NullTargets == 0

\* The back buffer sizes a resize may produce.
FramebufferSizes == {1, 2}

\* The frame times Animate is called with, in ticks.
ElapsedTimes == {0, 1}

\* Animate is not run past this scene time.
MaxTime == 2

\* The window is not resized once the pipelines were loaded this many times.
MaxLoads == 3

\* RenderTargets::IsUpdateRequired
IsUpdateRequired(targets, size) == targets # size

\* return -1.0f;
NoValidTimer == -1

\* device->getTimerQueryTime(timers[i]) in seconds: a stand-in for the measured
\* durations, different for every slot and for the two timer arrays.
TimerQueryTime(timers, slot) ==
    IF timers = "frame" THEN 2 * (slot + 1) ELSE slot + 1

RECURSIVE ScanTimers(_, _, _)
\* for (int i = from; i >= to; i--) if (device->pollTimerQuery(timers[i])) ...
\* The first slot found ready, or NoValidTimer.
ScanTimers(ready, from, to) ==
    IF from < to THEN NoValidTimer
    ELSE IF from \in ready THEN from
    ELSE ScanTimers(ready, from - 1, to)

\* WorkGraphs::GetLastValidQueryTimer: the first loop runs i from
\* m_NextTimerToUse-1 down to 0, the second from QueuedFramesCount-1 down to
\* m_NextTimerToUse+1 (its test is i > m_NextTimerToUse).
GetLastValidQueryTimer(timers, ready, next) ==
    LET first  == ScanTimers(ready, next - 1, 0)
        second == ScanTimers(ready, QueuedFramesCount - 1, next + 1)
    IN  IF first # NoValidTimer THEN TimerQueryTime(timers, first) * 1000
        ELSE IF second # NoValidTimer THEN TimerQueryTime(timers, second) * 1000
        ELSE NoValidTimer

\* bool resetAnim = m_ForceResetAnimation || m_UI.ResetAnim;
ResetAnim(force, ui) == force \/ ui.ResetAnim

\* A pass that leaves m_ForceResetAnimation as it found it.
ForceResetKept(force) == force

\* m_ForceResetAnimation = false; at the end of PopulateAnimationPass
ForceResetAfterPass(force) == FALSE

\* workGraphSetProgram.WorkGraph.Flags = m_InitWorkGraphBackingMemory ? ... : ...
WorkGraphFlags(init) == IF init THEN "INITIALIZE" ELSE "NONE"

NoAnimationPass == [time |-> 0, diff |-> 0, reset |-> FALSE]

NoWorkGraphDispatch ==
    [made |-> FALSE, flags |-> "NONE", memory |-> 0, program |-> 0,
     memoryInitialized |-> FALSE, memoryUsed |-> FALSE, memoryLastUser |-> 0]

NoFrame ==
    [recorded |-> FALSE, loaded |-> FALSE, uiReset |-> FALSE,
     technique |-> TechWorkGraph, animation |-> NoAnimationPass,
     workGraph |-> NoWorkGraphDispatch]

\* A buffer as createBuffer returns it: never used by a work graph.
FreshMemory == [initialized |-> FALSE, used |-> FALSE, lastUser |-> 0]

\* UIData as constructed.
InitialUI ==
    [CurrentTechnique |-> 0, Paused |-> FALSE, ResetAnim |-> FALSE,
     GPUFrameTime |-> 0, GPUShadingTime |-> 0]

\* A step of the work_graphs program leaves the other programs alone.
WorkGraphsOnly ==
    UNCHANGED <<varsThreaded, varsHeadless, varsDispatch, varsParticles,
                varsShading, varsMeshes, varsWorld, varsBindless>>

WorkGraphsStart ==
    /\ phase = "events"
    /\ fbSize = 1
    /\ m_RenderTargets = NullTargets
    /\ m_CurrentTechnique = TechWorkGraph
    /\ m_InitWorkGraphBackingMemory = TRUE
    /\ m_ForceResetAnimation = TRUE
    /\ m_TimeInSeconds = 0
    /\ m_TimeDiffThisFrame = 0
    /\ m_UI = InitialUI
    /\ m_NextTimerToUse = 0
    /\ loads = 0
    /\ m_WorkGraphBroadcastingSO = 0
    /\ m_WorkGraphBackingMemory = 0
    /\ backingMemory = <<>>
    /\ timerPending = {}
    /\ timerReady = {}
    /\ frame = NoFrame

WorkGraphsParked == WorkGraphsStart

\* The window is resized: the message loop calls BackBufferResizing and then
\* resizes the swap chain (to a size that may equal the old one).
BackBufferResizing(size) ==
    /\ phase = "events"
    /\ loads < MaxLoads
    /\ m_RenderTargets' = NullTargets
    /\ fbSize' = size
    /\ phase' = "animate"
    /\ UNCHANGED <<m_CurrentTechnique, m_InitWorkGraphBackingMemory,
                   m_ForceResetAnimation, m_TimeInSeconds, m_TimeDiffThisFrame,
                   m_UI, m_NextTimerToUse, loads, m_WorkGraphBroadcastingSO,
                   m_WorkGraphBackingMemory, backingMemory, timerPending,
                   timerReady, frame>>
    /\ WorkGraphsOnly

\* The GPU completes the command list whose timers are in this slot.
GpuComplete(slot) ==
    /\ phase = "events"
    /\ slot \in timerPending
    /\ timerPending' = timerPending \ {slot}
    /\ timerReady' = timerReady \cup {slot}
    /\ UNCHANGED <<phase, fbSize, m_RenderTargets, m_CurrentTechnique,
                   m_InitWorkGraphBackingMemory, m_ForceResetAnimation,
                   m_TimeInSeconds, m_TimeDiffThisFrame, m_UI, m_NextTimerToUse,
                   loads, m_WorkGraphBroadcastingSO, m_WorkGraphBackingMemory,
                   backingMemory, frame>>
    /\ WorkGraphsOnly

\* WorkGraphs::Animate(fElapsedTimeSeconds)
Animate(fElapsedTimeSeconds) ==
    /\ phase \in {"events", "animate"}
    /\ m_TimeInSeconds + fElapsedTimeSeconds <= MaxTime
    /\ LET diff1 == IF ~m_UI.Paused THEN fElapsedTimeSeconds ELSE 0
           time1 == IF ~m_UI.Paused THEN m_TimeInSeconds + fElapsedTimeSeconds
                                    ELSE m_TimeInSeconds
           resetAnim == ResetAnim(m_ForceResetAnimation, m_UI)
           changed == m_CurrentTechnique # m_UI.CurrentTechnique
       IN  /\ m_TimeDiffThisFrame' = IF resetAnim THEN 0 ELSE diff1
           /\ m_TimeInSeconds' = IF resetAnim THEN 0 ELSE time1
           /\ m_CurrentTechnique' =
                  IF changed THEN m_UI.CurrentTechnique ELSE m_CurrentTechnique
           /\ m_InitWorkGraphBackingMemory' =
                  IF changed THEN TRUE ELSE m_InitWorkGraphBackingMemory
           /\ m_UI' = [m_UI EXCEPT
                  !.GPUFrameTime =
                      GetLastValidQueryTimer("frame", timerReady, m_NextTimerToUse),
                  !.GPUShadingTime =
                      GetLastValidQueryTimer("shading", timerReady, m_NextTimerToUse)]
    /\ phase' = "render"
    /\ UNCHANGED <<fbSize, m_RenderTargets, m_ForceResetAnimation, m_NextTimerToUse,
                   loads, m_WorkGraphBroadcastingSO, m_WorkGraphBackingMemory,
                   backingMemory, timerPending, timerReady, frame>>
    /\ WorkGraphsOnly

\* PopulateAnimationPass: the push constants of the two animation dispatches.
PopulateAnimationPass(force, ui, time, diff) ==
    [time |-> time, diff |-> diff, reset |-> ResetAnim(force, ui)]

\* PopulateDeferredShadingWorkGraph: SetProgram with the flags and the backing
\* memory, then DispatchGraph; `memories` is the state of the buffers before.
PopulateDeferredShadingWorkGraph(init, memory, program, memories) ==
    [made |-> TRUE, flags |-> WorkGraphFlags(init),
     memory |-> memory, program |-> program,
     memoryInitialized |-> memories[memory].initialized,
     memoryUsed |-> memories[memory].used,
     memoryLastUser |-> memories[memory].lastUser]

\* What a recorded work graph dispatch does to the backing memory it is bound to.
MemoryAfterDispatch(memories, dispatch) ==
    [memories EXCEPT ![dispatch.memory] =
        [initialized |-> @.initialized \/ dispatch.flags = "INITIALIZE",
         used        |-> TRUE,
         lastUser    |-> dispatch.program]]

\* WorkGraphs::Render(framebuffer)
Render ==
    /\ phase = "render"
    /\ LET \* First frame or window resize.
           load == \/ m_RenderTargets = NullTargets
                   \/ IsUpdateRequired(m_RenderTargets, fbSize)
           \* LoadScenePipelines ends with m_ForceResetAnimation = true.
           force1 == IF load THEN TRUE ELSE m_ForceResetAnimation
           \* LoadWorkGraphPipelines creates the state object and the buffer.
           loads1 == IF load THEN loads + 1 ELSE loads
           program1 == IF load THEN loads1 ELSE m_WorkGraphBroadcastingSO
           memory1 == IF load THEN loads1 ELSE m_WorkGraphBackingMemory
           memories1 == IF load THEN Append(backingMemory, FreshMemory)
                                ELSE backingMemory
           animation == PopulateAnimationPass(force1, m_UI, m_TimeInSeconds,
                                              m_TimeDiffThisFrame)
           useGraph == m_CurrentTechnique = TechWorkGraph
           dispatch == IF useGraph
                       THEN PopulateDeferredShadingWorkGraph(
                                m_InitWorkGraphBackingMemory, memory1, program1,
                                memories1)
                       ELSE NoWorkGraphDispatch
       IN  /\ m_RenderTargets' = IF load THEN fbSize ELSE m_RenderTargets
           /\ loads' = loads1
           /\ m_WorkGraphBroadcastingSO' = program1
           /\ m_WorkGraphBackingMemory' = memory1
           /\ m_ForceResetAnimation' = ForceResetAfterPass(force1)
           /\ m_InitWorkGraphBackingMemory' =
                  IF useGraph THEN FALSE ELSE m_InitWorkGraphBackingMemory
           /\ backingMemory' = IF useGraph
                               THEN MemoryAfterDispatch(memories1, dispatch)
                               ELSE memories1
           /\ frame' = [recorded  |-> TRUE,
                        loaded    |-> load,
                        uiReset   |-> m_UI.ResetAnim,
                        technique |-> m_CurrentTechnique,
                        animation |-> animation,
                        workGraph |-> dispatch]
    \* resetTimerQuery, beginTimerQuery ... endTimerQuery on this frame's slot.
    /\ timerReady' = timerReady \ {m_NextTimerToUse}
    /\ timerPending' = timerPending \cup {m_NextTimerToUse}
    /\ m_NextTimerToUse' = (m_NextTimerToUse + 1) % QueuedFramesCount
    /\ phase' = "ui"
    /\ UNCHANGED <<fbSize, m_CurrentTechnique, m_TimeInSeconds,
                   m_TimeDiffThisFrame, m_UI>>
    /\ WorkGraphsOnly

\* UIRenderer::buildUI: the combo, the checkbox and the button of this frame.
BuildUI(technique, paused, resetPressed) ==
    /\ phase = "ui"
    /\ m_UI' = [m_UI EXCEPT !.CurrentTechnique = technique,
                            !.Paused = paused,
                            !.ResetAnim = resetPressed]
    /\ phase' = "events"
    /\ UNCHANGED <<fbSize, m_RenderTargets, m_CurrentTechnique,
                   m_InitWorkGraphBackingMemory, m_ForceResetAnimation,
                   m_TimeInSeconds, m_TimeDiffThisFrame, m_NextTimerToUse, loads,
                   m_WorkGraphBroadcastingSO, m_WorkGraphBackingMemory,
                   backingMemory, timerPending, timerReady, frame>>
    /\ WorkGraphsOnly

-----------------------------------------------------------------------------
(***************************************************************************)
(* work_graphs: the thread group counts of PopulateAnimationPass, for any  *)
(* number of scene objects or lights.                                      *)
(***************************************************************************)

\* const int threadsX = 32;
ThreadsX == 32

\* D3D12_CS_DISPATCH_MAX_THREAD_GROUPS_PER_DIMENSION
MaxThreadGroupsPerDimension == 65535

\* Element counts are drawn from 0 .. MaxSmallCount and from within
\* LargeCountSpread of the count that fills one dimension of thread groups.
MaxSmallCount == 70
LargeCountSpread == 40

ElementCounts ==
    (0 .. MaxSmallCount)
    \cup ((MaxThreadGroupsPerDimension * ThreadsX - LargeCountSpread)
           .. (MaxThreadGroupsPerDimension * ThreadsX + LargeCountSpread))

\* max(a, b)
Max(a, b) == IF a >= b THEN a ELSE b

\* (size + (threadsX-1)) / threadsX
TotalDispatchSize(n) == (n + (ThreadsX - 1)) \div ThreadsX

\* max(totalDispatchSize % D3D12_CS_DISPATCH_MAX_THREAD_GROUPS_PER_DIMENSION, 1)
DispatchX(n) == Max(TotalDispatchSize(n) % MaxThreadGroupsPerDimension, 1)

\* max(totalDispatchSize / D3D12_CS_DISPATCH_MAX_THREAD_GROUPS_PER_DIMENSION, 1)
DispatchY(n) == Max(TotalDispatchSize(n) \div MaxThreadGroupsPerDimension, 1)

NoDispatch == [recorded |-> FALSE, x |-> 0, y |-> 0]

\* A step here leaves the other programs alone.
DispatchOnly ==
    UNCHANGED <<varsThreaded, varsHeadless, varsWorkGraphs, varsParticles,
                varsShading, varsMeshes, varsWorld, varsBindless>>

DispatchStart ==
    /\ elementCount \in ElementCounts
    /\ animationDispatch = NoDispatch

DispatchParked ==
    /\ elementCount = 0
    /\ animationDispatch = NoDispatch

\* m_CommandList->dispatch((uint32_t)dispatchX, (uint32_t)dispatchY);
\* (the counts drawn are far below 2^32, so the casts change nothing)
AnimationDispatch ==
    /\ ~animationDispatch.recorded
    /\ animationDispatch' = [recorded |-> TRUE,
                             x |-> DispatchX(elementCount),
                             y |-> DispatchY(elementCount)]
    /\ UNCHANGED elementCount
    /\ DispatchOnly

-----------------------------------------------------------------------------
(***************************************************************************)
(* rt_particles: RayTracedParticles::Animate                               *)
(***************************************************************************)

\* Time is counted in ticks; a second is this many ticks.
TicksPerSecond == 40

\* constexpr uint32_t c_MaxParticles = 1024;
c_MaxParticles == 1024

ParticleSlots == 0 .. (c_MaxParticles - 1)

\* const float lifeTime = 2.f;
ParticleLifeTime == 2 * TicksPerSecond

\* const float particlesPerSecond = 20.f;
ParticlesPerSecond == 20

\* const float particleEmissionPeriod = 1.f / particlesPerSecond;
ParticleEmissionPeriod == TicksPerSecond \div ParticlesPerSecond

\* The frame times handed to Animate: exactly the emission period, just
\* above it, and one long enough to take a particle to the end of its life.
ParticleElapsedTimes ==
    {ParticleEmissionPeriod, ParticleEmissionPeriod + 1, ParticleLifeTime - 2}

\* Animate is followed for this many calls.
MaxAnimateCalls == 6

\* ParticleEntity as default-constructed by m_Particles.resize.
NewParticle == [active |-> FALSE, age |-> 0]

\* ParticleEntity::Emit (position, velocity, radius, colour and rotation are
\* drawn at random and play no part in emission).
Emit(particle) == [particle EXCEPT !.active = TRUE, !.age = 0]

\* ParticleEntity::Animate: age += time; if (age > lifeTime) active = false;
ParticleAnimate(particle, time) ==
    [active |-> ~(particle.age + time > ParticleLifeTime),
     age    |-> particle.age + time]

\* The first loop of Animate over m_Particles: live particles are animated.
AnimateLive(particles, time) ==
    [k \in ParticleSlots |->
        IF particles[k].active THEN ParticleAnimate(particles[k], time)
                               ELSE particles[k]]

\* firstEmptyParticle: the lowest index of an inactive particle after the
\* loop, -1 when every particle is active.
FirstEmptyParticle(particles) ==
    LET empty == {k \in ParticleSlots : ~particles[k].active}
    IN  IF empty = {} THEN -1
        ELSE CHOOSE k \in empty : \A j \in empty : k <= j

\* An emission test that waits one tick too long.
EmissionDueLate(wallclock, lastEmit) ==
    wallclock - lastEmit > ParticleEmissionPeriod + 1

\* m_WallclockTime - m_LastEmitTime > particleEmissionPeriod
EmissionDue(wallclock, lastEmit) ==
    wallclock - lastEmit > ParticleEmissionPeriod

NoAnimate ==
    [called |-> FALSE, animated |-> FALSE, elapsed |-> 0, sinceLastEmit |-> 0,
     firstEmptyParticle |-> -1, emitted |-> FALSE]

\* A step of the rt_particles program leaves the other programs alone.
ParticlesOnly ==
    UNCHANGED <<varsThreaded, varsHeadless, varsWorkGraphs, varsDispatch,
                varsShading, varsMeshes, varsWorld, varsBindless>>

\* After Init: the scene is loaded synchronously, the particle pool is sized.
ParticlesStart ==
    /\ sceneLoaded = TRUE
    /\ enableAnimations = TRUE
    /\ m_Particles = [k \in ParticleSlots |-> NewParticle]
    /\ m_WallclockTime = 0
    /\ m_LastEmitTime = 0
    /\ animateCalls = 0
    /\ lastAnimate = NoAnimate

\* The rt_particles program when another program is the one being run:
\* as constructed, Init not yet called, m_Particles still empty.
ParticlesParked ==
    /\ sceneLoaded = FALSE
    /\ enableAnimations = TRUE
    /\ m_Particles = <<>>
    /\ m_WallclockTime = 0
    /\ m_LastEmitTime = 0
    /\ animateCalls = 0
    /\ lastAnimate = NoAnimate

\* KeyboardUpdate with GLFW_KEY_SPACE pressed, or the "Animate particles"
\* checkbox of the UI.
ParticlesKeyboardUpdate ==
    /\ enableAnimations' = ~enableAnimations
    /\ lastAnimate' = NoAnimate
    /\ UNCHANGED <<sceneLoaded, m_Particles, m_WallclockTime, m_LastEmitTime,
                   animateCalls>>
    /\ ParticlesOnly

\* Animate(fElapsedTimeSeconds)
ParticlesAnimate(fElapsedTimeSeconds) ==
    /\ animateCalls < MaxAnimateCalls
    /\ animateCalls' = animateCalls + 1
    /\ IF sceneLoaded /\ enableAnimations
       THEN LET wallclock == m_WallclockTime + fElapsedTimeSeconds
                animated  == AnimateLive(m_Particles, fElapsedTimeSeconds)
                firstEmptyParticle == FirstEmptyParticle(animated)
                emit == /\ EmissionDue(wallclock, m_LastEmitTime)
                        /\ firstEmptyParticle >= 0
            IN  /\ m_WallclockTime' = wallclock
                /\ m_Particles' =
                       IF emit
                       THEN [animated EXCEPT ![firstEmptyParticle] = Emit(@)]
                       ELSE animated
                /\ m_LastEmitTime' = IF emit THEN wallclock ELSE m_LastEmitTime
                /\ lastAnimate' =
                       [called |-> TRUE, animated |-> TRUE,
                        elapsed |-> fElapsedTimeSeconds,
                        sinceLastEmit |-> wallclock - m_LastEmitTime,
                        firstEmptyParticle |-> firstEmptyParticle,
                        emitted |-> emit]
       ELSE /\ lastAnimate' = [NoAnimate EXCEPT !.called = TRUE]
            /\ UNCHANGED <<m_Particles, m_WallclockTime, m_LastEmitTime>>
    /\ UNCHANGED <<sceneLoaded, enableAnimations>>
    /\ ParticlesOnly

-----------------------------------------------------------------------------
(***************************************************************************)
(* variable_shading: VariableRateShading::BackBufferResizing / Render      *)
(***************************************************************************)

\* A null unique_ptr or handle; objects are numbered from 1.
NullObject == 0

\* The framebuffer sizes the window takes.
VrsFramebufferSizes == {1, 2, 3}

\* The positions the camera takes.
CameraPositions == {0, 1}

\* BackBufferResizing is followed for this many calls.
MaxResizes == 3

\* A default-constructed engine::PlanarView.  `targets` and `temporalPass`
\* are not fields of the class: they name the render targets and the
\* temporal pass of the Render call that filled the view in.
EmptyView ==
    [viewport |-> 0, camera |-> 0, targets |-> NullObject,
     temporalPass |-> NullObject]

NoVrsFrame ==
    [recorded |-> FALSE, targets |-> NullObject, temporalPass |-> NullObject,
     motionVectors |-> FALSE, view |-> EmptyView, viewPrevious |-> EmptyView,
     feedbackIsValid |-> FALSE]

\* An object created now: no two creations of one member fall between the
\* same two BackBufferResizing calls.
NewObject == resizes + 1

\* if (!member) member = create(...);
CreateIfNull(member) == IF member = NullObject THEN NewObject ELSE member

\* A step of the variable_shading program leaves the other programs alone.
ShadingOnly ==
    UNCHANGED <<varsThreaded, varsHeadless, varsWorkGraphs, varsDispatch,
                varsParticles, varsMeshes, varsWorld, varsBindless>>

ShadingStart ==
    /\ vrsFramebuffer = 1
    /\ m_Camera = 0
    /\ vrsRenderTargets = NullObject
    /\ m_ForwardPass = NullObject
    /\ m_shadingRateSurface = NullObject
    /\ m_temporalPass = NullObject
    /\ m_Pipeline = NullObject
    /\ m_View = EmptyView
    /\ m_ViewPrevious = EmptyView
    /\ m_PreviousViewsValid = FALSE
    /\ resizes = 0
    /\ vrsFrame = NoVrsFrame

ShadingParked == ShadingStart

\* Animate: m_Camera.Animate moves the camera.
ShadingAnimate(position) ==
    /\ m_Camera' = position
    /\ UNCHANGED <<vrsFramebuffer, vrsRenderTargets, m_ForwardPass,
                   m_shadingRateSurface, m_temporalPass, m_Pipeline, m_View,
                   m_ViewPrevious, m_PreviousViewsValid, resizes, vrsFrame>>
    /\ ShadingOnly

\* BackBufferResizing, called by the device manager before it resizes the
\* swap chain to `size`.
ShadingBackBufferResizing(size) ==
    /\ resizes < MaxResizes
    /\ resizes' = resizes + 1
    /\ vrsFramebuffer' = size
    /\ vrsRenderTargets' = NullObject
    /\ m_ForwardPass' = NullObject
    /\ m_shadingRateSurface' = NullObject
    /\ m_temporalPass' = NullObject
    /\ m_Pipeline' = NullObject
    /\ UNCHANGED <<m_Camera, m_View, m_ViewPrevious, m_PreviousViewsValid,
                   vrsFrame>>
    /\ ShadingOnly

\* Render(framebuffer)
ShadingRender ==
    LET targets == CreateIfNull(vrsRenderTargets)
        pass    == CreateIfNull(m_temporalPass)
        view    == [viewport |-> vrsFramebuffer, camera |-> m_Camera,
                    targets |-> targets, temporalPass |-> pass]
    IN  /\ vrsRenderTargets' = targets
        /\ m_View' = view
        /\ m_shadingRateSurface' = CreateIfNull(m_shadingRateSurface)
        /\ m_ForwardPass' = CreateIfNull(m_ForwardPass)
        /\ m_temporalPass' = pass
        /\ m_Pipeline' = CreateIfNull(m_Pipeline)
        \* if (m_PreviousViewsValid) RenderMotionVectors(m_View, m_ViewPrevious)
        \* ... TemporalResolve(..., m_PreviousViewsValid, m_View, m_View)
        /\ vrsFrame' = [recorded |-> TRUE, targets |-> targets,
                        temporalPass |-> pass,
                        motionVectors |-> m_PreviousViewsValid,
                        view |-> view, viewPrevious |-> m_ViewPrevious,
                        feedbackIsValid |-> m_PreviousViewsValid]
        /\ m_ViewPrevious' = view
        /\ m_PreviousViewsValid' = TRUE
        /\ UNCHANGED <<vrsFramebuffer, m_Camera, resizes>>
        /\ ShadingOnly

-----------------------------------------------------------------------------
(***************************************************************************)
(* work_graphs scene generator: GeneratePlane, GenerateBox, GenerateSphere *)
(***************************************************************************)

\* static const uint16_t SceneParam_BoxSubdivisions = 100;
SceneParam_BoxSubdivisions == 100

\* static const uint16_t SceneParam_SphereSides = 100;
SceneParam_SphereSides == 100

\* static const uint16_t SceneParam_SphereSlices = 50;
SceneParam_SphereSlices == 50

\* The number of values of a uint16_t.
UInt16Range == 65536

\* The 0xFFFF of assert(outMesh.positions.size() < 0xFFFF).
MaxPositions == 65535

\* MeshType::MT_Plane, MT_Box, MT_Sphere
MeshTypes == {"plane", "box", "sphere"}

\* Conversion of an int or size_t value to uint16_t.
U16(v) == v % UInt16Range

\* Whether the conversion of any of the values to uint16_t changes it.
Wraps(values) == \E k \in DOMAIN values : U16(values[k]) # values[k]

\* The values as stored in a std::vector<uint16_t>.
Stored(values) == [k \in DOMAIN values |-> U16(values[k])]

\* The indices of GeneratePlaneInternal, before conversion, for a mesh that
\* holds `count` positions: baseVtx is (uint16_t)outMesh.positions.size().
PlaneIndices(count) ==
    LET base == U16(count)
    IN  <<base + 0, base + 1, base + 2, base + 2, base + 3, base + 0>>

\* A row of quads that is one vertex too long.
RowStrideTooLong(faceSubdivisions) == faceSubdivisions + 2

\* (faceSubdivisions+1): the number of vertices in a row of a box side.
RowStride(faceSubdivisions) == faceSubdivisions + 1

\* baseVtx+y*(faceSubdivisions+1)+x, before conversion to uint16_t.
FaceBaseVtx(base, faceSubdivisions, y, x) ==
    base + y * RowStride(faceSubdivisions) + x

\* The six indices of one quad of a box side, before conversion.
QuadIndices(faceBaseVtx, faceSubdivisions) ==
    <<faceBaseVtx + 0,
      faceBaseVtx + RowStride(faceSubdivisions) + 0,
      faceBaseVtx + RowStride(faceSubdivisions) + 1,
      faceBaseVtx + RowStride(faceSubdivisions) + 1,
      faceBaseVtx + 1,
      faceBaseVtx + 0>>

\* The three indices of one triangle of the bottom cap, before conversion.
BottomCapIndices(base, sides, k) ==
    <<base + 0, base + 1 + k, base + 1 + ((k + 1) % sides)>>

\* baseVtx+1+y*sides, before conversion to uint16_t.
SliceBaseVtx(base, sides, y) == base + 1 + y * sides

\* The six indices of one quad of the trunk, before conversion.
TrunkIndices(sliceBaseVtx, sides, x) ==
    <<sliceBaseVtx + x + 0,
      sliceBaseVtx + x + 0 + sides,
      sliceBaseVtx + ((x + 1) % sides) + sides,
      sliceBaseVtx + ((x + 1) % sides) + sides,
      sliceBaseVtx + ((x + 1) % sides),
      sliceBaseVtx + x + 0>>

\* baseVtx+1+(slices-2)*sides, before conversion to uint16_t.
CapBaseVtx(base, sides, slices) == base + 1 + (slices - 2) * sides

\* The three indices of one triangle of the top cap, before conversion.
TopCapIndices(capBaseVtx, cap, sides, k) ==
    <<capBaseVtx + k, cap, capBaseVtx + ((k + 1) % sides)>>

\* A step of the generator leaves the other programs alone.
MeshesOnly ==
    UNCHANGED <<varsThreaded, varsHeadless, varsWorkGraphs, varsDispatch,
                varsParticles, varsShading, varsWorld, varsBindless>>

\* A MESH_DATA of meshSet as default-constructed, its generator about to run.
MeshesStart ==
    /\ meshType \in MeshTypes
    /\ gpc = "begin"
    /\ sideIndex = 0
    /\ meshY = 0
    /\ meshX = 0
    /\ meshI = 0
    /\ baseVtx = 0
    /\ capVtx = 0
    /\ positionCount = 0
    /\ indexCount = 0
    /\ pushed = <<>>
    /\ wrapped = FALSE
    /\ assertsHeld = TRUE

MeshesParked ==
    /\ meshType = "none"
    /\ gpc = "done"
    /\ sideIndex = 0
    /\ meshY = 0
    /\ meshX = 0
    /\ meshI = 0
    /\ baseVtx = 0
    /\ capVtx = 0
    /\ positionCount = 0
    /\ indexCount = 0
    /\ pushed = <<>>
    /\ wrapped = FALSE
    /\ assertsHeld = TRUE

\* outMesh.indices.push_back of each of the values, in order.
PushIndices(values) ==
    /\ pushed' = Stored(values)
    /\ indexCount' = indexCount + Len(values)

\* GeneratePlaneInternal: four positions, six indices.
GeneratePlaneInternal(next) ==
    /\ baseVtx' = U16(positionCount)
    /\ PushIndices(PlaneIndices(positionCount))
    /\ wrapped' = (wrapped \/ Wraps(<<positionCount>>)
                           \/ Wraps(PlaneIndices(positionCount)))
    /\ positionCount' = positionCount + 4
    /\ gpc' = next
    /\ UNCHANGED <<meshType, sideIndex, meshY, meshX, meshI, capVtx, assertsHeld>>
    /\ MeshesOnly

\* GeneratePlane: GeneratePlaneInternal(0, 1, outMesh);
PlaneUp ==
    /\ meshType = "plane" /\ gpc = "begin"
    /\ GeneratePlaneInternal("planeDown")

\* GeneratePlane: GeneratePlaneInternal(0, -1, outMesh);
PlaneDown ==
    /\ meshType = "plane" /\ gpc = "planeDown"
    /\ GeneratePlaneInternal("done")

\* GenerateBox: entry of a GenerateSide call, up to the first loop.
BoxSideBegin ==
    /\ meshType = "box" /\ gpc \in {"begin", "side"}
    /\ assertsHeld' = (assertsHeld /\ positionCount < MaxPositions)
    /\ baseVtx' = U16(positionCount)
    /\ wrapped' = (wrapped \/ Wraps(<<positionCount>>))
    /\ meshY' = 0
    /\ gpc' = "vertices"
    /\ UNCHANGED <<meshType, sideIndex, meshX, meshI, capVtx, positionCount,
                   indexCount, pushed>>
    /\ MeshesOnly

\* GenerateSide: one pass of the outer vertex loop, the whole inner loop.
BoxVertexRow ==
    /\ meshType = "box" /\ gpc = "vertices"
    /\ IF meshY < SceneParam_BoxSubdivisions + 1
       THEN /\ positionCount' = positionCount + (SceneParam_BoxSubdivisions + 1)
            /\ meshY' = U16(meshY + 1)
            /\ UNCHANGED <<gpc, meshX>>
       ELSE /\ gpc' = "quads"
            /\ meshY' = 0
            /\ meshX' = 0
            /\ UNCHANGED positionCount
    /\ UNCHANGED <<meshType, sideIndex, meshI, baseVtx, capVtx, indexCount,
                   pushed, wrapped, assertsHeld>>
    /\ MeshesOnly

\* GenerateSide: one pass of the body of the two index loops.
BoxQuad ==
    /\ meshType = "box" /\ gpc = "quads"
    /\ meshY < SceneParam_BoxSubdivisions
    /\ meshX < SceneParam_BoxSubdivisions
    /\ LET exact == FaceBaseVtx(baseVtx, SceneParam_BoxSubdivisions, meshY, meshX)
           quad  == QuadIndices(U16(exact), SceneParam_BoxSubdivisions)
       IN  /\ PushIndices(quad)
           /\ wrapped' = (wrapped \/ Wraps(<<exact>>) \/ Wraps(quad))
    /\ IF U16(meshX + 1) < SceneParam_BoxSubdivisions
       THEN meshX' = U16(meshX + 1) /\ UNCHANGED meshY
       ELSE meshX' = 0 /\ meshY' = U16(meshY + 1)
    /\ UNCHANGED <<meshType, gpc, sideIndex, meshI, baseVtx, capVtx,
                   positionCount, assertsHeld>>
    /\ MeshesOnly

\* GenerateSide returns; GenerateBox goes on to the next side or to the top.
BoxSideEnd ==
    /\ meshType = "box" /\ gpc = "quads"
    /\ ~(meshY < SceneParam_BoxSubdivisions /\ meshX < SceneParam_BoxSubdivisions)
    /\ IF sideIndex < 3
       THEN sideIndex' = sideIndex + 1 /\ gpc' = "side"
       ELSE UNCHANGED sideIndex /\ gpc' = "top"
    /\ UNCHANGED <<meshType, meshY, meshX, meshI, baseVtx, capVtx,
                   positionCount, indexCount, pushed, wrapped, assertsHeld>>
    /\ MeshesOnly

\* GenerateBox: GeneratePlaneInternal(0.5f, 1, outMesh); // Top side.
BoxTop ==
    /\ meshType = "box" /\ gpc = "top"
    /\ GeneratePlaneInternal("bottom")

\* GenerateBox: GeneratePlaneInternal(-0.5f, -1, outMesh); // Bottom side.
BoxBottom ==
    /\ meshType = "box" /\ gpc = "bottom"
    /\ GeneratePlaneInternal("done")

\* GenerateSphere: the asserts, baseVtx and the bottom vertex.
SphereBegin ==
    /\ meshType = "sphere" /\ gpc = "begin"
    /\ assertsHeld' = (/\ assertsHeld
                       /\ SceneParam_SphereSides >= 3
                       /\ SceneParam_SphereSlices >= 2
                       /\ positionCount < MaxPositions)
    /\ baseVtx' = U16(positionCount)
    /\ wrapped' = (wrapped \/ Wraps(<<positionCount>>))
    /\ positionCount' = positionCount + 1
    /\ meshY' = 1
    /\ gpc' = "ring"
    /\ UNCHANGED <<meshType, sideIndex, meshX, meshI, capVtx, indexCount, pushed>>
    /\ MeshesOnly

\* GenerateSphere: one ring of trunk vertices; after the last, the top vertex.
SphereRing ==
    /\ meshType = "sphere" /\ gpc = "ring"
    /\ IF meshY < SceneParam_SphereSlices
       THEN /\ positionCount' = positionCount + SceneParam_SphereSides
            /\ meshY' = U16(meshY + 1)
            /\ UNCHANGED <<gpc, capVtx, meshI, wrapped>>
       ELSE /\ capVtx' = U16(positionCount)
            /\ wrapped' = (wrapped \/ Wraps(<<positionCount>>))
            /\ positionCount' = positionCount + 1
            /\ meshI' = 0
            /\ gpc' = "bottomCap"
            /\ UNCHANGED meshY
    /\ UNCHANGED <<meshType, sideIndex, meshX, baseVtx, indexCount, pushed,
                   assertsHeld>>
    /\ MeshesOnly

\* GenerateSphere: one triangle of the bottom cap.
SphereBottomCap ==
    /\ meshType = "sphere" /\ gpc = "bottomCap"
    /\ IF meshI < SceneParam_SphereSides
       THEN LET cap == BottomCapIndices(baseVtx, SceneParam_SphereSides, meshI)
            IN  /\ PushIndices(cap)
                /\ wrapped' = (wrapped \/ Wraps(cap))
                /\ meshI' = U16(meshI + 1)
                /\ UNCHANGED <<gpc, meshY, meshX>>
       ELSE /\ gpc' = "trunk"
            /\ meshY' = 0
            /\ meshX' = 0
            /\ UNCHANGED <<meshI, indexCount, pushed, wrapped>>
    /\ UNCHANGED <<meshType, sideIndex, baseVtx, capVtx, positionCount,
                   assertsHeld>>
    /\ MeshesOnly

\* GenerateSphere: one quad of the trunk.
SphereTrunk ==
    /\ meshType = "sphere" /\ gpc = "trunk"
    /\ IF meshY < SceneParam_SphereSlices - 2 /\ meshX < SceneParam_SphereSides
       THEN LET exact == SliceBaseVtx(baseVtx, SceneParam_SphereSides, meshY)
                quad  == TrunkIndices(U16(exact), SceneParam_SphereSides, meshX)
            IN  /\ PushIndices(quad)
                /\ wrapped' = (wrapped \/ Wraps(<<exact>>) \/ Wraps(quad))
                /\ IF U16(meshX + 1) < SceneParam_SphereSides
                   THEN meshX' = U16(meshX + 1) /\ UNCHANGED meshY
                   ELSE meshX' = 0 /\ meshY' = U16(meshY + 1)
                /\ UNCHANGED <<gpc, meshI>>
       ELSE /\ gpc' = "topCap"
            /\ meshI' = 0
            /\ UNCHANGED <<meshY, meshX, indexCount, pushed, wrapped>>
    /\ UNCHANGED <<meshType, sideIndex, baseVtx, capVtx, positionCount,
                   assertsHeld>>
    /\ MeshesOnly

\* GenerateSphere: one triangle of the top cap.
SphereTopCap ==
    /\ meshType = "sphere" /\ gpc = "topCap"
    /\ IF meshI < SceneParam_SphereSides
       THEN LET exact == CapBaseVtx(baseVtx, SceneParam_SphereSides,
                                    SceneParam_SphereSlices)
                cap   == TopCapIndices(U16(exact), capVtx,
                                       SceneParam_SphereSides, meshI)
            IN  /\ PushIndices(cap)
                /\ wrapped' = (wrapped \/ Wraps(<<exact>>) \/ Wraps(cap))
                /\ meshI' = U16(meshI + 1)
                /\ UNCHANGED gpc
       ELSE /\ gpc' = "done"
            /\ UNCHANGED <<meshI, indexCount, pushed, wrapped>>
    /\ UNCHANGED <<meshType, sideIndex, meshY, meshX, baseVtx, capVtx,
                   positionCount, assertsHeld>>
    /\ MeshesOnly

-----------------------------------------------------------------------------
(***************************************************************************)
(* work_graphs scene generator: Scene::PopulateWorld                       *)
(***************************************************************************)

\* static const uint32_t SceneParam_MaterialCountOfEachType = 10;
SceneParam_MaterialCountOfEachType == 10

\* static const uint32_t SceneParam_Floors = 3;
SceneParam_Floors == 3

\* static const float SceneParam_FloorSize = 500;
SceneParam_FloorSize == 500

\* static const float SceneParam_ObjectRoomSize = 50;
SceneParam_ObjectRoomSize == 50

\* static const float SceneParam_BallRoomSize = 120;
SceneParam_BallRoomSize == 120

\* The material loops of PopulateWorld, in order.
MaterialLoops ==
    <<"BT_Lambert", "BT_Phong", "BT_Metallic", "BT_Velvet", "BT_Flakes",
      "BT_Stan", "BT_Checker">>

\* (int)(SceneParam_FloorSize / SceneParam_BallRoomSize)
BallRoomCount1D == SceneParam_FloorSize \div SceneParam_BallRoomSize

\* (int)(SceneParam_FloorSize / SceneParam_ObjectRoomSize)
ObjectRoomCount1D == SceneParam_FloorSize \div SceneParam_ObjectRoomSize

\* The largest value rand() is taken to return.
RandMax == 32767

\* The values of rand() drawn for a box's material: the least, those around
\* a multiple of the number of materials to choose from, and the greatest.
RandValues ==
    LET choices == 7 * SceneParam_MaterialCountOfEachType
    IN  {0, 1, choices - 1, choices, RandMax}

\* A material choice that does not skip the hard-coded materials.
AnyMaterial(r, materialCount) == r % materialCount

\* (UINT32)(rand()%((int)m_materials.size()-2)+2)
BoxMaterial(r, materialCount) == (r % (materialCount - 2)) + 2

\* Instance { pos, rotationY, size, meshType, material, animType }
Instance(mesh, material, anim) ==
    [meshType |-> mesh, material |-> material, animType |-> anim]

NoObject == Instance("none", 0, "none")

\* A step of PopulateWorld leaves the other programs alone.
WorldOnly ==
    UNCHANGED <<varsThreaded, varsHeadless, varsWorkGraphs, varsDispatch,
                varsParticles, varsShading, varsMeshes, varsBindless>>

\* A Scene as constructed, PopulateWorld about to run.
WorldStart ==
    /\ wpc = "begin"
    /\ m_materials = <<>>
    /\ materialLoop = 1
    /\ materialI = 0
    /\ worldFloor = 0
    /\ roomX = 0
    /\ roomZ = 0
    /\ m_worldObjects = {}
    /\ worldObjectCount = 0
    /\ lastObject = NoObject

WorldParked == WorldStart

\* m_worldObjects.push_back(instance)
PushObject(instance) ==
    /\ m_worldObjects' = m_worldObjects \cup {instance}
    /\ worldObjectCount' = worldObjectCount + 1
    /\ lastObject' = instance

\* The two nested room loops step to the next room; `count` is roomCount1D.
NextRoom(count) ==
    IF roomZ + 1 < count
    THEN roomZ' = roomZ + 1 /\ UNCHANGED roomX
    ELSE roomZ' = 0 /\ roomX' = roomX + 1

\* Material 0 is lambert.  Material 1 is faceted.
HardCodedMaterials ==
    /\ wpc = "begin"
    /\ m_materials' = m_materials \o <<"BT_Lambert", "BT_Faceted">>
    /\ wpc' = "materials"
    /\ UNCHANGED <<materialLoop, materialI, worldFloor, roomX, roomZ,
                   m_worldObjects, worldObjectCount, lastObject>>
    /\ WorldOnly

\* One pass of one of the seven material loops, or the step to the next loop.
PushMaterial ==
    /\ wpc = "materials"
    /\ materialLoop <= Len(MaterialLoops)
    /\ IF materialI < SceneParam_MaterialCountOfEachType
       THEN /\ m_materials' = Append(m_materials, MaterialLoops[materialLoop])
            /\ materialI' = materialI + 1
            /\ UNCHANGED materialLoop
       ELSE /\ materialLoop' = materialLoop + 1
            /\ materialI' = 0
            /\ UNCHANGED m_materials
    /\ UNCHANGED <<wpc, worldFloor, roomX, roomZ, m_worldObjects,
                   worldObjectCount, lastObject>>
    /\ WorldOnly

\* The floor loop: the ground plane of the next floor, or the end.
Ground ==
    /\ \/ wpc = "materials" /\ materialLoop > Len(MaterialLoops)
       \/ wpc = "floor"
    /\ IF worldFloor < SceneParam_Floors
       THEN /\ PushObject(Instance("MT_Plane", 0, "AT_Static"))
            /\ wpc' = "balls"
            /\ roomX' = 0
            /\ roomZ' = 0
       ELSE /\ wpc' = "done"
            /\ UNCHANGED <<roomX, roomZ, m_worldObjects, worldObjectCount,
                           lastObject>>
    /\ UNCHANGED <<m_materials, materialLoop, materialI, worldFloor>>
    /\ WorldOnly

\* One ball (its lights are pushed to m_lights, which plays no part here),
\* or the end of the ball loops.
Ball ==
    /\ wpc = "balls"
    /\ IF roomX < BallRoomCount1D /\ roomZ < BallRoomCount1D
       THEN /\ PushObject(Instance("MT_Sphere", 1, "AT_RotateY"))
            /\ NextRoom(BallRoomCount1D)
            /\ UNCHANGED wpc
       ELSE /\ wpc' = "boxes"
            /\ roomX' = 0
            /\ roomZ' = 0
            /\ UNCHANGED <<m_worldObjects, worldObjectCount, lastObject>>
    /\ UNCHANGED <<m_materials, materialLoop, materialI, worldFloor>>
    /\ WorldOnly

\* One box, rand() returning r for its material; or the end of the box loops
\* and of this pass of the floor loop.
Box(r) ==
    /\ wpc = "boxes"
    /\ IF roomX < ObjectRoomCount1D /\ roomZ < ObjectRoomCount1D
       THEN /\ PushObject(Instance("MT_Box", BoxMaterial(r, Len(m_materials)),
                                   "AT_Dance"))
            /\ NextRoom(ObjectRoomCount1D)
            /\ UNCHANGED <<wpc, worldFloor>>
       ELSE /\ wpc' = "floor"
            /\ worldFloor' = worldFloor + 1
            /\ roomX' = 0
            /\ roomZ' = 0
            /\ UNCHANGED <<m_worldObjects, worldObjectCount, lastObject>>
    /\ UNCHANGED <<m_materials, materialLoop, materialI>>
    /\ WorldOnly

-----------------------------------------------------------------------------
(***************************************************************************)
(* rt_bindless: BindlessRayTracing::BuildTLAS, called from Render          *)
(***************************************************************************)

\* The scene has this many skinned mesh instances, each with a mesh of its own.
NumSkinnedInstances == 3

\* GetSkinnedMeshInstances(), in the order the loops visit them.
SkinnedInstances == 1 .. NumSkinnedInstances

\* Render is followed up to this frame index.
MaxFrameIndex == 5

\* A command recorded into the command list; mesh is 0 where the command
\* names no mesh.
Command(op, mesh) == [op |-> op, mesh |-> mesh]

\* A test that also skips the instances updated in this very frame.
SkipsCurrentFrame(lastUpdate, index) == lastUpdate <= index

\* if (skinnedInstance->GetLastUpdateFrameIndex() < frameIndex) continue;
Skips(lastUpdate, index) == lastUpdate < index

\* The first loop of BuildTLAS, from instance k on.
RECURSIVE TransitionLoop(_, _, _)
TransitionLoop(k, lastUpdate, index) ==
    IF k > NumSkinnedInstances THEN <<>>
    ELSE (IF Skips(lastUpdate[k], index) THEN <<>>
          ELSE <<Command("setAccelStructState", k),
                 Command("setBufferState", k)>>)
         \o TransitionLoop(k + 1, lastUpdate, index)

\* The second loop of BuildTLAS, from instance k on.
RECURSIVE BuildLoop(_, _, _)
BuildLoop(k, lastUpdate, index) ==
    IF k > NumSkinnedInstances THEN <<>>
    ELSE (IF Skips(lastUpdate[k], index) THEN <<>>
          ELSE <<Command("buildBottomLevelAccelStruct", k)>>)
         \o BuildLoop(k + 1, lastUpdate, index)

\* BuildTLAS(commandList, frameIndex): the commands it records, in order.
BuildTLAS(lastUpdate, index) ==
    <<Command("beginMarker", 0)>>
    \o TransitionLoop(1, lastUpdate, index)
    \o <<Command("commitBarriers", 0)>>
    \o BuildLoop(1, lastUpdate, index)
    \o <<Command("endMarker", 0),
         Command("compactBottomLevelAccelStructs", 0),
         Command("beginMarker", 0),
         Command("buildTopLevelAccelStruct", 0),
         Command("endMarker", 0)>>

NoTlasFrame == [rendered |-> FALSE, frameIndex |-> 0, updated |-> {}]

\* A step of the rt_bindless program leaves the other programs alone.
BindlessOnly ==
    UNCHANGED <<varsThreaded, varsHeadless, varsWorkGraphs, varsDispatch,
                varsParticles, varsShading, varsMeshes, varsWorld>>

BindlessStart ==
    /\ frameIndex = 0
    /\ lastUpdateFrameIndex = [k \in SkinnedInstances |-> 0]
    /\ tlasCommands = <<>>
    /\ tlasFrame = NoTlasFrame

BindlessParked == BindlessStart

\* Render: m_Scene->Refresh(m_CommandList, GetFrameIndex()) updates the
\* skinned instances in `updated`, giving them the current frame index, then
\* BuildTLAS(m_CommandList, GetFrameIndex()); the device manager counts the
\* frame once it has been presented.
BindlessRender(updated) ==
    /\ frameIndex < MaxFrameIndex
    /\ LET refreshed == [k \in SkinnedInstances |->
                            IF k \in updated THEN frameIndex
                                             ELSE lastUpdateFrameIndex[k]]
       IN  /\ lastUpdateFrameIndex' = refreshed
           /\ tlasCommands' = BuildTLAS(refreshed, frameIndex)
    /\ tlasFrame' = [rendered |-> TRUE, frameIndex |-> frameIndex,
                     updated |-> updated]
    /\ frameIndex' = frameIndex + 1
    /\ BindlessOnly

-----------------------------------------------------------------------------
(***************************************************************************)
(* The programs                                                            *)
(***************************************************************************)

InitThreaded ==
    ThreadedStart /\ HeadlessParked /\ WorkGraphsParked /\ DispatchParked
    /\ ParticlesParked
    /\ ShadingParked
    /\ MeshesParked
    /\ WorldParked
    /\ BindlessParked

NextThreaded ==
    \/ KeyboardUpdate
    \/ RenderBegin
    \/ EmplaceTask
    \/ ExecutorRun
    \/ \E t \in 1 .. NumFaces : TaskBegin(t)
    \/ \E t \in 1 .. NumFaces : TaskEnd(t)
    \/ SerialRenderCubeFace
    \/ SerialLoopExit
    \/ RecordBlits
    \/ WaitForAll
    \/ ExecuteCommandLists

SpecThreadedRendering == InitThreaded /\ [][NextThreaded]_vars

ThreadedParked == ThreadedStart

InitHeadless ==
    HeadlessStart /\ ThreadedParked /\ WorkGraphsParked /\ DispatchParked
    /\ ParticlesParked
    /\ ShadingParked
    /\ MeshesParked
    /\ WorldParked
    /\ BindlessParked

NextHeadless ==
    \/ HelpOption
    \/ \E instanceOk, enumerateOk \in BOOLEAN : ListAdaptersOption(instanceOk, enumerateOk)
    \/ AdapterOption
    \/ OtherArgument
    \/ \E ok \in BOOLEAN : CreateHeadlessDevice(ok)
    \/ \E passed \in BOOLEAN : RunTest(passed)

SpecHeadless == InitHeadless /\ [][NextHeadless]_vars

InitWorkGraphs ==
    /\ WorkGraphsStart /\ ThreadedParked /\ HeadlessParked /\ DispatchParked
    /\ ParticlesParked
    /\ ShadingParked
    /\ MeshesParked
    /\ WorldParked
    /\ BindlessParked

\* The work_graphs program with the user at the controls and the window
\* being resized.
NextWorkGraphs ==
    \/ \E size \in FramebufferSizes : BackBufferResizing(size)
    \/ \E dt \in ElapsedTimes : Animate(dt)
    \/ Render
    \/ \E technique \in Techniques, paused, resetPressed \in BOOLEAN :
           BuildUI(technique, paused, resetPressed)

SpecWorkGraphs == InitWorkGraphs /\ [][NextWorkGraphs]_vars

\* The work_graphs program left alone (no input, no resize, animation time
\* standing still) while the GPU completes frames in whatever order.
NextTimerQueries ==
    \/ \E slot \in TimerSlots : GpuComplete(slot)
    \/ Animate(0)
    \/ Render
    \/ BuildUI(m_UI.CurrentTechnique, m_UI.Paused, FALSE)

SpecTimerQueries == InitWorkGraphs /\ [][NextTimerQueries]_vars

InitAnimationDispatch ==
    DispatchStart /\ ThreadedParked /\ HeadlessParked /\ WorkGraphsParked
    /\ ParticlesParked
    /\ ShadingParked
    /\ MeshesParked
    /\ WorldParked
    /\ BindlessParked

NextAnimationDispatch == AnimationDispatch

SpecAnimationDispatch == InitAnimationDispatch /\ [][NextAnimationDispatch]_vars


InitParticles ==
    /\ ParticlesStart /\ ThreadedParked /\ HeadlessParked /\ WorkGraphsParked
    /\ DispatchParked
    /\ ShadingParked
    /\ MeshesParked
    /\ WorldParked
    /\ BindlessParked

NextParticles ==
    \/ ParticlesKeyboardUpdate
    \/ \E dt \in ParticleElapsedTimes : ParticlesAnimate(dt)

SpecParticles == InitParticles /\ [][NextParticles]_vars

InitShading ==
    /\ ShadingStart /\ ThreadedParked /\ HeadlessParked /\ WorkGraphsParked
    /\ DispatchParked /\ ParticlesParked
    /\ MeshesParked
    /\ WorldParked
    /\ BindlessParked

NextShading ==
    \/ \E position \in CameraPositions : ShadingAnimate(position)
    \/ \E size \in VrsFramebufferSizes : ShadingBackBufferResizing(size)
    \/ ShadingRender

SpecShading == InitShading /\ [][NextShading]_vars

InitMeshes ==
    /\ MeshesStart /\ ThreadedParked /\ HeadlessParked /\ WorkGraphsParked
    /\ DispatchParked /\ ParticlesParked /\ ShadingParked
    /\ WorldParked
    /\ BindlessParked

NextMeshes ==
    \/ PlaneUp
    \/ PlaneDown
    \/ BoxSideBegin
    \/ BoxVertexRow
    \/ BoxQuad
    \/ BoxSideEnd
    \/ BoxTop
    \/ BoxBottom
    \/ SphereBegin
    \/ SphereRing
    \/ SphereBottomCap
    \/ SphereTrunk
    \/ SphereTopCap

SpecMeshes == InitMeshes /\ [][NextMeshes]_vars

InitWorld ==
    /\ WorldStart /\ ThreadedParked /\ HeadlessParked /\ WorkGraphsParked
    /\ DispatchParked /\ ParticlesParked /\ ShadingParked /\ MeshesParked
    /\ BindlessParked

NextWorld ==
    \/ HardCodedMaterials
    \/ PushMaterial
    \/ Ground
    \/ Ball
    \/ \E r \in RandValues : Box(r)

SpecWorld == InitWorld /\ [][NextWorld]_vars

InitBindless ==
    /\ BindlessStart /\ ThreadedParked /\ HeadlessParked /\ WorkGraphsParked
    /\ DispatchParked /\ ParticlesParked /\ ShadingParked /\ MeshesParked
    /\ WorldParked

NextBindless ==
    \E updated \in SUBSET SkinnedInstances : BindlessRender(updated)

SpecBindless == InitBindless /\ [][NextBindless]_vars

-----------------------------------------------------------------------------
(***************************************************************************)
(* Properties: threaded_rendering                                          *)
(***************************************************************************)

\* C1: with m_UseThreads set, a Render call builds exactly six tasks, task t
\* capturing face t-1; a task opens only the command list of its own face;
\* and in what is submitted every face list was recorded exactly once, by
\* the task of that face.
C1_OneTaskPerFace ==
    /\ (m_UseThreads /\ pc \in {"blit", "wait", "execute"}) =>
           /\ Len(taskFlow) = NumFaces
           /\ DOMAIN taskState = 1 .. NumFaces
           /\ \A t \in 1 .. NumFaces : taskFlow[t] = t - 1
    /\ (m_UseThreads /\ pc # "idle") =>
           \A f \in Faces : m_FaceCommandLists[f].by \subseteq {f + 1}
    /\ (submitted.valid /\ submitted.useThreads) =>
           \A f \in Faces : /\ submitted.faces[f].opens = 1
                            /\ submitted.faces[f].by = {f + 1}

\* A threaded Render call has submitted its lists, each face recorded once.
C1_Witness ==
    /\ submitted.valid
    /\ submitted.useThreads
    /\ \A f \in Faces : submitted.faces[f].opens = 1

\* C4: whatever executeCommandLists is handed, in either mode, every face
\* command list was opened in this Render call and is closed again, and no
\* task submitted in this call is still queued or recording.
C4_RecordedBeforeSubmit ==
    submitted.valid =>
        /\ \A f \in Faces : /\ submitted.faces[f].opens >= 1
                            /\ ~submitted.faces[f].open
        /\ submitted.running = {}
        /\ ~submitted.mainOpen

\* A threaded Render call reached executeCommandLists with all six tasks
\* complete and all six lists closed.
C4_Witness ==
    /\ submitted.valid
    /\ submitted.useThreads
    /\ submitted.running = {}
    /\ \A t \in 1 .. NumFaces : t \in DOMAIN taskState /\ taskState[t] = "done"
    /\ \A f \in Faces : ~submitted.faces[f].open

(***************************************************************************)
(* Properties: headless                                                    *)
(***************************************************************************)

\* The indices at which the loop handled an option of the given spelling.
Handled(arg) == {k \in optionsSeen : argv[k] = arg}

EarlyExitOptions == Handled(ArgHelp) \cup Handled(ArgListAdapters)

\* C2 as stated: for every "--adapter <n>" the loop handles with no "--help"
\* or "--list-adapters" handled before it, main ends having called
\* CreateHeadlessDevice with adapterIndex = atoi(<n>).
C2_AsStated ==
    hpc = "exit" =>
        \A k \in Handled(ArgAdapter) :
            (/\ k + 1 <= Len(argv)
             /\ \A j \in EarlyExitOptions : ~(j < k))
            => /\ deviceRequest.made
               /\ deviceRequest.adapterIndex = Atoi(argv[k + 1])

\* C2 amended: for the "--adapter <n>" the loop handles last, when no
\* "--help" or "--list-adapters" is handled anywhere on the command line,
\* main ends having called CreateHeadlessDevice with adapterIndex = atoi(<n>).
C2_LastAdapterOptionWins ==
    hpc = "exit" =>
        \A k \in Handled(ArgAdapter) :
            (/\ k + 1 <= Len(argv)
             /\ EarlyExitOptions = {}
             /\ \A j \in Handled(ArgAdapter) : j <= k)
            => /\ deviceRequest.made
               /\ deviceRequest.adapterIndex = Atoi(argv[k + 1])

\* main has returned after calling CreateHeadlessDevice with a non-default
\* adapter index taken from an "--adapter <n>" pair.
C2_Witness ==
    /\ hpc = "exit"
    /\ EarlyExitOptions = {}
    /\ deviceRequest.made
    /\ \E k \in Handled(ArgAdapter) :
           /\ k + 1 <= Len(argv)
           /\ Atoi(argv[k + 1]) = 12
           /\ deviceRequest.adapterIndex = 12

\* The outcome C3 describes: the error is logged, main returned 1, no device
\* was requested and the test did not run.
MissingParameterOutcome ==
    /\ "error: --device requires a parameter" \in output
    /\ exitCode = 1
    /\ ~deviceRequest.made
    /\ ~testRan

\* C3 as stated: whenever the last argument is "--adapter", main ends with
\* the missing-parameter outcome.
C3_AsStated ==
    (hpc = "exit" /\ Len(argv) >= 1 /\ argv[Len(argv)] = ArgAdapter)
        => MissingParameterOutcome

\* C3 amended: whenever the loop handles "--adapter" at the last argument
\* (it is not taken as the parameter of an "--adapter" before it, and no
\* "--help" or "--list-adapters" ended main earlier), main ends with the
\* missing-parameter outcome.
C3_TrailingAdapterOptionFails ==
    (hpc = "exit" /\ Len(argv) \in Handled(ArgAdapter))
        => MissingParameterOutcome

\* main returned 1 after handling "--adapter" at the last of several
\* arguments.
C3_Witness ==
    /\ hpc = "exit"
    /\ Len(argv) >= 2
    /\ Len(argv) \in Handled(ArgAdapter)
    /\ exitCode = 1
    /\ ~deviceRequest.made

(***************************************************************************)
(* Properties: work_graphs                                                 *)
(***************************************************************************)

\* C5: a work graph dispatch recorded with flags NONE is bound to backing
\* memory that an earlier dispatch, recorded with INITIALIZE on that same
\* buffer, has already initialized.
C5_AsStated ==
    (frame.workGraph.made /\ frame.workGraph.flags = "NONE")
        => frame.workGraph.memoryInitialized

\* C6: a work graph dispatch is recorded with INITIALIZE exactly when its
\* backing memory was never used by a work graph dispatch before or was last
\* used by a different work graph; every other dispatch is recorded with NONE.
C6_AsStated ==
    frame.workGraph.made =>
        (frame.workGraph.flags = "INITIALIZE"
            <=> \/ ~frame.workGraph.memoryUsed
                \/ frame.workGraph.memoryLastUser # frame.workGraph.program)

\* C7: the animation pass of a frame carries the reset flag exactly when that
\* Render call (re)loaded the scene pipelines or the UI requested a reset; and
\* once a pass has been recorded no forced reset is left pending.
C7_ResetOnLoadOrRequest ==
    frame.recorded =>
        /\ frame.animation.reset <=> (frame.loaded \/ frame.uiReset)
        /\ ~m_ForceResetAnimation

\* A later frame, with time running, recorded without reload, without a UI
\* request and without the reset flag.
C7_Witness ==
    /\ frame.recorded
    /\ loads >= 1
    /\ ~frame.loaded
    /\ ~frame.uiReset
    /\ ~frame.animation.reset
    /\ frame.animation.time > 0

\* C8: an animation pass recorded with the reset flag pushes scene time 0 and
\* frame time delta 0.
C8_AsStated ==
    (frame.recorded /\ frame.animation.reset)
        => /\ frame.animation.time = 0
           /\ frame.animation.diff = 0

\* How long ago the frame in a timer slot was recorded: 0 for the frame
\* before m_NextTimerToUse, QueuedFramesCount-1 for the oldest.
SlotAge(slot) ==
    (m_NextTimerToUse - 1 - slot + QueuedFramesCount) % QueuedFramesCount

\* The most recently recorded slot among a non-empty set of slots.
MostRecent(slots) ==
    CHOOSE s \in slots : \A r \in slots : SlotAge(s) <= SlotAge(r)

\* C9: what Animate stores from GetLastValidQueryTimer is the time of the
\* most recently recorded of all QueuedFramesCount slots whose query is ready,
\* and is -1 only when no slot is ready.
C9_AsStated ==
    phase = "render" =>
        m_UI.GPUFrameTime =
            IF timerReady = {}
            THEN NoValidTimer
            ELSE TimerQueryTime("frame", MostRecent(timerReady)) * 1000

\* C10: the thread groups dispatched, 32 threads each, cover all elements.
C10_AsStated ==
    animationDispatch.recorded =>
        animationDispatch.x * animationDispatch.y * ThreadsX >= elementCount

(***************************************************************************)
(* Properties: rt_particles                                                *)
(***************************************************************************)

\* The particles that are live.
ActiveParticles == {k \in ParticleSlots : m_Particles[k].active}

\* Particles are emitted more than an emission period apart and live for the
\* life time, so only so many are live at once.
MostLiveParticles == ParticleLifeTime \div ParticleEmissionPeriod + 1

\* C11: an Animate call with the scene loaded and animations enabled, at
\* which more than the emission period of animated time has passed since the
\* last emission, emits a new particle: a slot that was empty now holds a
\* live particle of age 0 and the emission time is the current time.  The
\* pool always has an empty slot for it: the live particles stay far below
\* c_MaxParticles.
C11_EmitsWhenPeriodPassed ==
    /\ Cardinality(ActiveParticles) <= MostLiveParticles
    /\ MostLiveParticles < c_MaxParticles
    /\ (lastAnimate.animated /\ lastAnimate.sinceLastEmit > ParticleEmissionPeriod)
           => /\ lastAnimate.emitted
              /\ lastAnimate.firstEmptyParticle \in ParticleSlots
              /\ m_Particles[lastAnimate.firstEmptyParticle] = Emit(NewParticle)
              /\ m_LastEmitTime = m_WallclockTime

\* An Animate call one tick after the emission period has passed emitted
\* into a slot whose earlier particle had died, next to particles still live.
C11_Witness ==
    /\ lastAnimate.animated
    /\ lastAnimate.sinceLastEmit = ParticleEmissionPeriod + 1
    /\ lastAnimate.emitted
    /\ lastAnimate.firstEmptyParticle = 0
    /\ Cardinality(ActiveParticles) >= 2

(***************************************************************************)
(* Properties: variable_shading                                            *)
(***************************************************************************)

\* C12: a Render call records RenderMotionVectors against m_ViewPrevious only
\* if m_ViewPrevious was stored by a Render call that used the same render
\* targets and the same temporal anti-aliasing pass as this one, that is,
\* with no BackBufferResizing in between.
C12_AsStated ==
    (vrsFrame.recorded /\ vrsFrame.motionVectors)
        => /\ vrsFrame.viewPrevious.targets = vrsFrame.targets
           /\ vrsFrame.viewPrevious.temporalPass = vrsFrame.temporalPass

(***************************************************************************)
(* Properties: work_graphs scene generator, meshes                         *)
(***************************************************************************)

\* C13: for the shipped mesh parameters, every index pushed refers to a
\* vertex the mesh already holds, no conversion to uint16_t of a base vertex
\* or of an index has changed its value, and every assert evaluated held.
C13_IndicesInRange ==
    /\ \A k \in DOMAIN pushed : pushed[k] < positionCount
    /\ ~wrapped
    /\ assertsHeld

\* GenerateBox has run to its end: four sides of 101 x 101 vertices and two
\* planes, the last index pushed being the highest vertex but three.
C13_Witness ==
    /\ meshType = "box"
    /\ gpc = "done"
    /\ positionCount = 4 * (SceneParam_BoxSubdivisions + 1)
                         * (SceneParam_BoxSubdivisions + 1) + 8
    /\ indexCount = 4 * SceneParam_BoxSubdivisions * SceneParam_BoxSubdivisions * 6 + 12
    /\ pushed[1] = positionCount - 4

(***************************************************************************)
(* Properties: work_graphs scene generator, world                          *)
(***************************************************************************)

\* The material at an index of m_materials (indices count from 0).
MaterialAt(index) == m_materials[index + 1]

\* The box instances pushed so far.
Boxes == {o \in m_worldObjects : o.meshType = "MT_Box"}

\* C14: material 0 is Lambert and material 1 is Faceted, and every box
\* instance PopulateWorld has pushed has a material index from 2 to
\* m_materials.size() - 1.
C14_BoxesSkipHardCodedMaterials ==
    /\ wpc # "begin" => /\ MaterialAt(0) = "BT_Lambert"
                        /\ MaterialAt(1) = "BT_Faceted"
    /\ \A o \in Boxes : /\ 2 <= o.material
                        /\ o.material <= Len(m_materials) - 1
    /\ lastObject.meshType = "MT_Box"
           => lastObject.material \in 2 .. (Len(m_materials) - 1)

\* PopulateWorld has run to its end, with boxes of the first and of the last
\* material that can be chosen.
C14_Witness ==
    /\ wpc = "done"
    /\ Len(m_materials) = 2 + 7 * SceneParam_MaterialCountOfEachType
    /\ worldObjectCount =
           SceneParam_Floors * (1 + BallRoomCount1D * BallRoomCount1D
                                  + ObjectRoomCount1D * ObjectRoomCount1D)
    /\ \E o \in Boxes : o.material = 2
    /\ \E o \in Boxes : o.material = Len(m_materials) - 1

(***************************************************************************)
(* Properties: rt_bindless                                                 *)
(***************************************************************************)

\* Where in the recorded commands the given command stands.
PositionsOf(op, mesh) ==
    {n \in DOMAIN tlasCommands : tlasCommands[n] = Command(op, mesh)}

\* The skinned instances whose last update is not older than the frame.
Current ==
    {k \in SkinnedInstances : lastUpdateFrameIndex[k] >= tlasFrame.frameIndex}

\* C15: in what BuildTLAS records, exactly the skinned instances with last
\* update frame index >= the frame index have their two state transitions
\* set and their bottom-level structure built, each once; those include every
\* instance updated in this frame; all the transitions come before the one
\* commitBarriers and that before every bottom-level build; and the
\* top-level build comes after every bottom-level build and after compaction.
C15_TransitionsThenBuilds ==
    tlasFrame.rendered =>
        LET commit  == PositionsOf("commitBarriers", 0)
            compact == PositionsOf("compactBottomLevelAccelStructs", 0)
            tlas    == PositionsOf("buildTopLevelAccelStruct", 0)
        IN  /\ Cardinality(commit) = 1
            /\ Cardinality(compact) = 1
            /\ Cardinality(tlas) = 1
            /\ tlasFrame.updated \subseteq Current
            /\ \A k \in SkinnedInstances :
                   LET accel  == PositionsOf("setAccelStructState", k)
                       buffer == PositionsOf("setBufferState", k)
                       build  == PositionsOf("buildBottomLevelAccelStruct", k)
                       count  == IF k \in Current THEN 1 ELSE 0
                   IN  /\ Cardinality(accel) = count
                       /\ Cardinality(buffer) = count
                       /\ Cardinality(build) = count
                       /\ \A s \in accel \cup buffer, c \in commit : s < c
                       /\ \A b \in build, c \in commit : c < b
                       /\ \A b \in build, t \in tlas : b < t
            /\ \A c \in compact, t \in tlas : c < t

\* A later frame in which two skinned instances were updated and one was not.
C15_Witness ==
    /\ tlasFrame.rendered
    /\ tlasFrame.frameIndex >= 1
    /\ Cardinality(tlasFrame.updated) = 2
    /\ Cardinality(Current) = 2
    /\ \E k \in SkinnedInstances :
           PositionsOf("buildBottomLevelAccelStruct", k) = {}

=============================================================================
